---- MODULE Spec2Model ----
(***************************************************************************)
(* A model of the Ribara job analyzer / tutor:                             *)
(*   - teacher.py  Teacher: the ReAct tutor whose session is persisted in  *)
(*                 history.json, served by the endpoints of main.py;       *)
(*   - learning.py LearningPlatform: the command-line tutor loop, and the  *)
(*                 tutor tab of app.py that drives it from Streamlit;      *)
(*   - analyzer.py Analyzer behind POST /analyze of main.py, and           *)
(*                 trash/entry.py JobAnalyzer behind app.py's Analyze tab. *)
(* The specifications of the module: SpecTeacher (Teacher + main.py),      *)
(* SpecTutor (LearningPlatform.run and the tutor tab), SpecAnalyzer (the   *)
(* two analyzers) and SpecJobAnalyzer (run_analysis run to its end).       *)
(***************************************************************************)
EXTENDS Naturals, Integers, Sequences, FiniteSets, TLC

(***************************************************************************)
(* Bounds of the model.                                                    *)
(***************************************************************************)
\* datetime.now() is read at one-second resolution ("%Y-%m-%d %H:%M:%S");
\* the clock runs from StartClock to MaxClock seconds, and the files found at
\* the first start were written at second 0.
MaxClock == 2
\* No call starts once chat_history holds more than MaxHistory - 2 messages.
MaxHistory == 5
\* The server process is killed at most MaxCrashes times.
MaxCrashes == 1

\* No user turn starts once turn_count has reached MaxTurns.
MaxTurns == 5
\* No message is submitted to the tutor tab once the transcript holds more
\* than MaxTranscript - 2 messages.
MaxTranscript == 5
\* The second at which the server first starts.
StartClock == 1

\* The callers of the /init_chat and /chat endpoints.
Clients == {"c1", "c2"}

(***************************************************************************)
(* Teacher: values.                                                        *)
(***************************************************************************)
\* The default message of init_chat, and the messages /chat is given.
DefaultInitMessage ==
    "Hi. Please search the web and give me an update on the latest content concerning this skill I'm learning"
ChatMessages == {"q"}

\* The completion service's answer to a message; the text is tagged with the
\* message it answers so that a transcript shows which reply belongs to which
\* turn.
ReplyTo(m) ==
    CASE m = DefaultInitMessage -> "re:init"
      [] m = "q" -> "re:q"
      [] OTHER -> "re:hi"

\* enums.Proficiency: an Enum looked up by value; each member's value.
ProficiencyValues == {"none", "beginner", "intermediate", "advanced", "expert"}
Proficiency(v) ==
    CASE v = "none" -> "NONE"
      [] v = "beginner" -> "BEGINNER"
      [] v = "intermediate" -> "INTERMEDIATE"
      [] v = "advanced" -> "ADVANCED"
      [] v = "expert" -> "EXPERT"
ProficiencyValue(m) ==
    CASE m = "NONE" -> "none"
      [] m = "BEGINNER" -> "beginner"
      [] m = "INTERMEDIATE" -> "intermediate"
      [] m = "ADVANCED" -> "advanced"
      [] m = "EXPERT" -> "expert"
      [] OTHER -> ""

\* The langchain message classes of chat_history.
HumanMessage(content) == [type |-> "HumanMessage", content |-> content]
AIMessage(content) == [type |-> "AIMessage", content |-> content]
SystemMessage(content) == [type |-> "SystemMessage", content |-> content]

\* A Teacher whose attributes get_history has not assigned (no history.json):
\* loaded stands for "user_name ... chat_history are set".
NoTeacher ==
    [loaded |-> FALSE, user_name |-> "", job_role |-> "",
     job_proficiency |-> "", teaching_skill |-> "",
     teaching_proficiency |-> "", history_timestamp |-> 0,
     session_timestamp |-> 0, chat_history |-> <<>>, chat_init |-> FALSE]

\* The content of history.json: the dict save_history dumps.
EmptyData ==
    [timestamp |-> 0, user_name |-> "", job_role |-> "",
     job_proficiency |-> "", teaching_skill |-> "",
     teaching_proficiency |-> "", chat_history |-> <<>>]

\* json.dump writes the document piece by piece: the opening part with the six
\* scalar fields, one piece per chat_history entry, and the closing part.
Pieces(data) == Len(data.chat_history) + 2

\* history.json on disk: `written` pieces of the dump of `data` have reached
\* the file; the file holds a whole JSON document iff all of them have.
NoFile == [exists |-> FALSE, data |-> EmptyData, written |-> 0]
FileOf(data) == [exists |-> TRUE, data |-> data, written |-> Pieces(data)]
Complete(f) == f.exists /\ f.written = Pieces(f.data)

Entry(role, message, ts) == [role |-> role, message |-> message, timestamp |-> ts]

\* The history.json files a server may find when it first starts: none, a
\* session with an empty transcript, and a session with a system note and one
\* exchange.
SessionA ==
    [timestamp |-> 0, user_name |-> "ann", job_role |-> "analyst",
     job_proficiency |-> "beginner", teaching_skill |-> "sql",
     teaching_proficiency |-> "advanced", chat_history |-> <<>>]
SessionB ==
    [timestamp |-> 0, user_name |-> "bob", job_role |-> "engineer",
     job_proficiency |-> "expert", teaching_skill |-> "docker",
     teaching_proficiency |-> "intermediate",
     chat_history |-> << Entry("system", "note", 0),
                         Entry("user", "hi", 0),
                         Entry("assistant", "re:hi", 0) >>]
InitialFiles == {NoFile, FileOf(SessionA), FileOf(SessionB)}

(***************************************************************************)
(* State.                                                                  *)
(***************************************************************************)
VARIABLES
    now,           \* the wall clock, in seconds
    history_json,  \* the file history.json
    server,        \* the process of main.py: "up", "down", "load_error"
    teacher,       \* my_teacher, the Teacher object of the process
    req,           \* per client: the call it has in the server
    before,        \* per client: the session as it was when its call began
    saved,         \* the in-memory session the last finished save wrote
    crashes,       \* how many times the process was killed
    mode,          \* the front end of LearningPlatform: "cli" (run) or "app"
    report,        \* the analysis report given to LearningPlatform
    platform,      \* the LearningPlatform object: current_skill, turn_count
    ss,            \* st.session_state of app.py
    ui,            \* where run() / the script of app.py stands
    call,          \* the tutor_reply call in progress
    analysis,      \* the analysis front end: "api" (main.py /analyze) or "app"
    areq,          \* per client: its /analyze request in the server
    tmp,           \* the temporary directory: per file name, the file
    ja             \* the JobAnalyzer.run_analysis call of app.py

teacherVars == <<now, history_json, server, teacher, req, before, saved, crashes>>
tutorVars == <<mode, report, platform, ss, ui, call>>
analyzerVars == <<analysis, areq, tmp, ja>>
vars == <<now, history_json, server, teacher, req, before, saved, crashes,
          mode, report, platform, ss, ui, call, analysis, areq, tmp, ja>>

(***************************************************************************)
(* Teacher.get_history and Teacher.save_history.                           *)
(***************************************************************************)
\* get_history's dispatch on the persisted role (an entry with any other role
\* is skipped by KnownRole).
KnownRole(role) == role \in {"user", "assistant", "system"}
MessageOfRoleRelabelled(role, content) ==
    IF role = "user" THEN HumanMessage(content)
    ELSE IF role = "assistant" THEN HumanMessage(content)
    ELSE SystemMessage(content)
MessageOfRole(role, content) ==
    IF role = "user" THEN HumanMessage(content)
    ELSE IF role = "assistant" THEN AIMessage(content)
    ELSE SystemMessage(content)

LoadedChat(entries) ==
    LET known == SelectSeq(entries, LAMBDA e : KnownRole(e.role))
    IN  [i \in 1..Len(known) |-> MessageOfRole(known[i].role, known[i].message)]

\* get_history on a Teacher t, given the document json.load read.
get_history(t, f) ==
    IF ~f.exists THEN t
    ELSE [t EXCEPT !.loaded = TRUE,
                   !.history_timestamp = f.data.timestamp,
                   !.user_name = f.data.user_name,
                   !.job_role = f.data.job_role,
                   !.job_proficiency = Proficiency(f.data.job_proficiency),
                   !.teaching_skill = f.data.teaching_skill,
                   !.teaching_proficiency = Proficiency(f.data.teaching_proficiency),
                   !.chat_history = LoadedChat(f.data.chat_history)]

\* json.load raises on a file that does not hold a whole document, and
\* Proficiency(...) raises on a value that is no member's.
LoadRaises(f) ==
    f.exists /\ (~Complete(f)
                 \/ f.data.job_proficiency \notin ProficiencyValues
                 \/ f.data.teaching_proficiency \notin ProficiencyValues)

\* Teacher.__init__ at time `clock`.
NewTeacher(clock, f) ==
    [get_history([NoTeacher EXCEPT !.session_timestamp = clock], f)
        EXCEPT !.chat_init = FALSE]

\* save_history's dispatch on the message class.
RoleOfMessage(msg) ==
    IF msg.type = "HumanMessage" THEN "user"
    ELSE IF msg.type = "AIMessage" THEN "assistant"
    ELSE IF msg.type = "SystemMessage" THEN "system"
    ELSE "unknown"

\* serialized_chat: every entry is stamped with the time of the save.
serialized_chat_stale(chat, clock) ==
    [i \in 1..(Len(chat) - 1) |-> Entry(RoleOfMessage(chat[i]), chat[i].content, clock)]
serialized_chat(chat, clock) ==
    [i \in 1..Len(chat) |-> Entry(RoleOfMessage(chat[i]), chat[i].content, clock)]

\* The dict `data` of save_history.
save_data(t, clock) ==
    [timestamp |-> t.session_timestamp,
     user_name |-> t.user_name,
     job_role |-> t.job_role,
     job_proficiency |-> ProficiencyValue(t.job_proficiency),
     teaching_skill |-> t.teaching_skill,
     teaching_proficiency |-> ProficiencyValue(t.teaching_proficiency),
     chat_history |-> serialized_chat(t.chat_history, clock)]

\* What a session is made of, in memory and on disk, without the timestamps
\* of the entries.
Pairs(entries) == [i \in 1..Len(entries) |-> <<entries[i].role, entries[i].message>>]
MemPairs(chat) == [i \in 1..Len(chat) |-> <<RoleOfMessage(chat[i]), chat[i].content>>]

\* The in-memory session of a Teacher.
MemSession(t) ==
    [session_timestamp |-> t.session_timestamp, user_name |-> t.user_name,
     job_role |-> t.job_role, job_proficiency |-> t.job_proficiency,
     teaching_skill |-> t.teaching_skill,
     teaching_proficiency |-> t.teaching_proficiency,
     chat_history |-> t.chat_history]
NoSaved == [valid |-> FALSE, session |-> MemSession(NoTeacher)]

(***************************************************************************)
(* The calls of main.py's endpoints into my_teacher.                       *)
(***************************************************************************)
\* The "configurable" dict init_chat and chat pass to agent.invoke, and
\* dict.get, which gives None for a key the dict does not hold.
PyNoneText == "None"
Configurable(t) ==
    [thread_id |-> "1", user_name |-> t.user_name, job_role |-> t.job_role,
     job_proficiency |-> t.job_proficiency, teaching_skill |-> t.teaching_skill,
     teaching_proficiency |-> t.teaching_proficiency,
     session_timestamp |-> t.session_timestamp]
ConfigGet(config, key) == IF key \in DOMAIN config THEN config[key] ELSE PyNoneText

\* prompt(state, config): the values the f-string of system_msg is filled
\* with, each read from the config under the key the code names.
system_msg(config) ==
    [user_name |-> ConfigGet(config, "user_name"),
     job_role |-> ConfigGet(config, "job_role"),
     job_proficiency |-> ConfigGet(config, "job_proficiency"),
     teaching_skill |-> ConfigGet(config, "teaching_skill"),
     teaching_proficiency |-> ConfigGet(config, "teachin_proficiency"),
     session_timestamp |-> ConfigGet(config, "session_timestamp")]
NoSystemMsg ==
    [user_name |-> "", job_role |-> "", job_proficiency |-> "", teaching_skill |-> "",
     teaching_proficiency |-> "", session_timestamp |-> 0]

Idle == [pc |-> "idle", op |-> "none", message |-> "", reply |-> "", result |-> "none",
         system |-> NoSystemMsg]
Ended(r, result) == [Idle EXCEPT !.op = r.op, !.message = r.message, !.result = result]

NoSnapshot == [taken |-> FALSE, file |-> NoFile, chat_history |-> <<>>,
               chat_init |-> FALSE, saved |-> NoSaved]
Snapshot == [taken |-> TRUE, file |-> history_json,
             chat_history |-> teacher.chat_history, chat_init |-> teacher.chat_init,
             saved |-> saved]

Room == Len(teacher.chat_history) + 2 <= MaxHistory

\* A call is in flight from the moment its handler starts to its return; a
\* request the server has not started yet is "queued".
InFlight(c) == req[c].pc \notin {"idle", "queued"}

\* A request reaches the server: GET /init_chat or POST /chat?message=m.
Arrive(c, op, m) ==
    /\ server = "up" /\ req[c].pc = "idle" /\ Room
    /\ op = "init_chat" => m = DefaultInitMessage
    /\ op = "chat" => m \in ChatMessages
    /\ req' = [req EXCEPT ![c] = [Idle EXCEPT !.pc = "queued", !.op = op, !.message = m]]
    /\ UNCHANGED <<now, history_json, server, teacher, before, saved, crashes, tutorVars, analyzerVars>>

\* The endpoints are `async def` functions that call my_teacher without an
\* await: the event loop runs one of them to its return before it starts
\* the next, which waits in the loop's queue.
RunInThreadPool(c) == TRUE
EventLoopFree(c) == \A d \in Clients : ~InFlight(d)

\* GET /init_chat: init_chat builds its config from the attributes (an
\* AttributeError when get_history set none) and goes on to agent.invoke.
InitChatCall(c) ==
    /\ server = "up" /\ req[c].pc = "queued" /\ req[c].op = "init_chat"
    /\ EventLoopFree(c)
    /\ IF teacher.loaded
       THEN /\ req' = [req EXCEPT ![c] = [pc |-> "invoke", op |-> "init_chat",
                                          message |-> DefaultInitMessage,
                                          reply |-> "", result |-> "none",
                                          system |-> system_msg(Configurable(teacher))]]
            /\ before' = [before EXCEPT ![c] = Snapshot]
       ELSE /\ req' = [req EXCEPT ![c] = Ended(req[c], "AttributeError")]
            /\ UNCHANGED before
    /\ UNCHANGED <<now, history_json, server, teacher, saved, crashes, tutorVars, analyzerVars>>

\* POST /chat: chat raises RuntimeError unless chat_init.
ChatCallUnguarded(c) ==
    /\ server = "up" /\ req[c].pc = "queued" /\ req[c].op = "chat"
    /\ EventLoopFree(c)
    /\ req' = [req EXCEPT ![c] = [pc |-> "invoke", op |-> "chat",
                                  message |-> req[c].message,
                                  reply |-> "", result |-> "none",
                                  system |-> system_msg(Configurable(teacher))]]
    /\ before' = [before EXCEPT ![c] = Snapshot]
    /\ UNCHANGED <<now, history_json, server, teacher, saved, crashes, tutorVars, analyzerVars>>
ChatCall(c) ==
    /\ server = "up" /\ req[c].pc = "queued" /\ req[c].op = "chat"
    /\ EventLoopFree(c)
    /\ IF teacher.chat_init
       THEN /\ req' = [req EXCEPT ![c] = [pc |-> "invoke", op |-> "chat",
                                          message |-> req[c].message,
                                          reply |-> "", result |-> "none",
                                          system |-> system_msg(Configurable(teacher))]]
            /\ before' = [before EXCEPT ![c] = Snapshot]
       ELSE /\ req' = [req EXCEPT ![c] = Ended(req[c], "RuntimeError")]
            /\ UNCHANGED before
    /\ UNCHANGED <<now, history_json, server, teacher, saved, crashes, tutorVars, analyzerVars>>

\* A direct call of the public method save_history on a loaded Teacher.
SaveHistoryCall(c) ==
    /\ server = "up" /\ req[c].pc = "idle" /\ EventLoopFree(c) /\ teacher.loaded
    /\ req' = [req EXCEPT ![c] = [Idle EXCEPT !.pc = "save_open", !.op = "save_history"]]
    /\ before' = [before EXCEPT ![c] = Snapshot]
    /\ UNCHANGED <<now, history_json, server, teacher, saved, crashes, tutorVars, analyzerVars>>

\* agent.invoke returns: assistant_reply = response["messages"][-1].
InvokeReturns(c) ==
    /\ req[c].pc = "invoke"
    /\ req' = [req EXCEPT ![c].pc = "append_user", ![c].reply = ReplyTo(req[c].message)]
    /\ UNCHANGED <<now, history_json, server, teacher, before, saved, crashes, tutorVars, analyzerVars>>

\* agent.invoke raises: the exception leaves init_chat / chat.
InvokeFailsAfterAppend(c) ==
    /\ req[c].pc = "invoke"
    /\ req' = [req EXCEPT ![c] = Ended(req[c], "ServiceError")]
    /\ before' = [before EXCEPT ![c] = NoSnapshot]
    /\ teacher' = [teacher EXCEPT !.chat_history =
                       Append(@, HumanMessage(req[c].message))]
    /\ UNCHANGED <<now, history_json, server, saved, crashes, tutorVars, analyzerVars>>
InvokeFails(c) ==
    /\ req[c].pc = "invoke"
    /\ req' = [req EXCEPT ![c] = Ended(req[c], "ServiceError")]
    /\ before' = [before EXCEPT ![c] = NoSnapshot]
    /\ UNCHANGED <<now, history_json, server, teacher, saved, crashes, tutorVars, analyzerVars>>

\* self.chat_history.append(message)
AppendUserInFront(c) ==
    /\ req[c].pc = "append_user"
    /\ teacher' = [teacher EXCEPT !.chat_history =
                       <<HumanMessage(req[c].message)>> \o @]
    /\ req' = [req EXCEPT ![c].pc = "append_reply"]
    /\ UNCHANGED <<now, history_json, server, before, saved, crashes, tutorVars, analyzerVars>>
AppendUser(c) ==
    /\ req[c].pc = "append_user"
    /\ teacher' = [teacher EXCEPT !.chat_history =
                       Append(@, HumanMessage(req[c].message))]
    /\ req' = [req EXCEPT ![c].pc = "append_reply"]
    /\ UNCHANGED <<now, history_json, server, before, saved, crashes, tutorVars, analyzerVars>>

\* self.chat_history.append(assistant_reply)
AppendReply(c) ==
    /\ req[c].pc = "append_reply"
    /\ teacher' = [teacher EXCEPT !.chat_history = Append(@, AIMessage(req[c].reply))]
    /\ req' = [req EXCEPT ![c].pc = "save_open"]
    /\ UNCHANGED <<now, history_json, server, before, saved, crashes, tutorVars, analyzerVars>>

\* save_history builds `data` and opens history.json with mode "w", which
\* truncates the file in place.
SaveOpen(c) ==
    /\ req[c].pc = "save_open"
    /\ history_json' = [exists |-> TRUE, data |-> save_data(teacher, now), written |-> 0]
    /\ saved' = NoSaved
    /\ req' = [req EXCEPT ![c].pc = "save_dump"]
    /\ UNCHANGED <<now, server, teacher, before, crashes, tutorVars, analyzerVars>>

\* json.dump writes the whole document and the file is closed.
SaveDump(c) ==
    /\ req[c].pc = "save_dump"
    /\ history_json' = [history_json EXCEPT !.written = Pieces(history_json.data)]
    /\ saved' = [valid |-> TRUE, session |-> MemSession(teacher)]
    /\ req' = [req EXCEPT ![c].pc = "finish"]
    /\ UNCHANGED <<now, server, teacher, before, crashes, tutorVars, analyzerVars>>

\* The write raises OSError (a full disk) after some of the pieces: the
\* exception leaves save_history and its caller.
SaveFails(c) ==
    /\ req[c].pc = "save_dump"
    /\ \E k \in 0..(Pieces(history_json.data) - 1) :
           history_json' = [history_json EXCEPT !.written = k]
    /\ req' = [req EXCEPT ![c] = Ended(req[c], "OSError")]
    /\ before' = [before EXCEPT ![c] = NoSnapshot]
    /\ UNCHANGED <<now, server, teacher, saved, crashes, tutorVars, analyzerVars>>

\* init_chat sets chat_init after the save; the call returns the reply.
Finish(c) ==
    /\ req[c].pc = "finish"
    /\ teacher' = IF req[c].op = "init_chat"
                  THEN [teacher EXCEPT !.chat_init = TRUE] ELSE teacher
    /\ req' = [req EXCEPT ![c] = [Ended(req[c], "ok") EXCEPT !.reply = req[c].reply]]
    /\ before' = [before EXCEPT ![c] = NoSnapshot]
    /\ UNCHANGED <<now, history_json, server, saved, crashes, tutorVars, analyzerVars>>

\* The process is killed: the Teacher object and the calls in it are lost; of
\* a dump in progress any part may have reached the disk.
Crash ==
    /\ server = "up" /\ crashes < MaxCrashes
    /\ server' = "down"
    /\ crashes' = crashes + 1
    /\ teacher' = NoTeacher
    /\ IF \E c \in Clients : req[c].pc = "save_dump"
       THEN \E k \in 0..(Pieces(history_json.data) - 1) :
                history_json' = [history_json EXCEPT !.written = k]
       ELSE UNCHANGED history_json
    /\ req' = [c \in Clients |-> IF req[c].pc # "idle" THEN Ended(req[c], "killed")
                                 ELSE req[c]]
    /\ before' = [c \in Clients |-> NoSnapshot]
    /\ UNCHANGED <<now, saved, tutorVars, analyzerVars>>

\* main.py is started again: my_teacher = Teacher(...) reads history.json.
Restart ==
    /\ server = "down"
    /\ IF LoadRaises(history_json)
       THEN /\ server' = "load_error"
            /\ UNCHANGED teacher
       ELSE /\ server' = "up"
            /\ teacher' = NewTeacher(now, history_json)
    /\ UNCHANGED <<now, history_json, req, before, saved, crashes, tutorVars, analyzerVars>>

\* A second passes.
Tick ==
    /\ now < MaxClock
    /\ now' = now + 1
    /\ UNCHANGED <<history_json, server, teacher, req, before, saved, crashes, tutorVars, analyzerVars>>

(***************************************************************************)
(* LearningPlatform (learning.py): values.                                 *)
(***************************************************************************)
\* What the learner types at the tutor.
UserInputs == {"m"}

\* current_skill = None
None == "None"

Gap(name, current, required, severity) ==
    [skill_name |-> name, current_level |-> current,
     required_level |-> required, gap_severity |-> severity]
\* A key a dict does not hold: the gaps of analyzer.py's get_gaps carry no
\* "gap_severity".
Missing == "missing"
ReportNoGaps == [skill_gaps |-> <<>>]
ReportTwoGaps ==
    [skill_gaps |-> << Gap("sql", "none", "advanced", "high"),
                       Gap("docker", "beginner", "intermediate", "low") >>]
ReportOfAnalyzer ==
    [skill_gaps |-> << Gap("sql", "none", "advanced", Missing),
                       Gap("docker", "beginner", "intermediate", Missing) >>]
Reports == {ReportNoGaps, ReportTwoGaps, ReportOfAnalyzer}
SkillNames(rep) == {rep.skill_gaps[i].skill_name : i \in 1..Len(rep.skill_gaps)}

\* The answers to "Which skill would you like to work on first?": a number,
\* or text int() rejects.
Choices == [numeric : BOOLEAN, n : 0..3]

\* asks_what_to_learn lists the gaps with gap['gap_severity']: a KeyError on
\* a gap without the key.
ListGapsRaises(rep) ==
    \E i \in 1..Len(rep.skill_gaps) : rep.skill_gaps[i].gap_severity = Missing

\* asks_what_to_learn: the chosen gap, or the first one when the choice is
\* no number or out of range.
asks_what_to_learn(rep, choice) ==
    LET idx == choice.n - 1
    IN  IF ~choice.numeric \/ idx < 0 \/ idx >= Len(rep.skill_gaps)
        THEN rep.skill_gaps[1].skill_name
        ELSE rep.skill_gaps[idx + 1].skill_name

\* The lengths of the pages DuckDuckGo answers with, and text[:1500].
PageLengths == {900, 4000}
ContextLimit == 1500
Min(a, b) == IF a <= b THEN a ELSE b

\* "No external context available right now."
NoContextLength == 40
NoContext == [kind |-> "none", query |-> <<"", "">>, length |-> NoContextLength]
Unset == [kind |-> "unset", query |-> <<"", "">>, length |-> 0]

\* fetch_web_context: the first 1500 characters of the page, or the sentinel
\* when requests.get raised; `raised` says whether an exception leaves it.
fetch_web_context_unguarded(outcome, query, length) ==
    IF outcome = "raises"
    THEN [raised |-> TRUE, value |-> Unset]
    ELSE [raised |-> FALSE,
          value |-> [kind |-> "web", query |-> query,
                     length |-> Min(length, ContextLimit)]]
fetch_web_context(outcome, query, length) ==
    IF outcome = "raises"
    THEN [raised |-> FALSE, value |-> NoContext]
    ELSE [raised |-> FALSE,
          value |-> [kind |-> "web", query |-> query,
                     length |-> Min(length, ContextLimit)]]

\* The two messages tutor_reply gives the model: the system prompt naming the
\* skill and embedding the context, and the user message.
NoPrompt == [skill |-> None, context |-> Unset, intro |-> FALSE, text |-> ""]
BuildPromptBeforeFetch(skill, context, intro, user_input) ==
    [skill |-> skill, context |-> Unset, intro |-> intro,
     text |-> IF intro THEN "" ELSE user_input]
BuildPrompt(skill, context, intro, user_input) ==
    [skill |-> skill, context |-> context, intro |-> intro,
     text |-> IF intro THEN "" ELSE user_input]
ReplyFor(prompt) == IF prompt.intro THEN "introduction" ELSE "answer"
\* messages = [SystemMessage(content=sys_prompt), HumanMessage(content=user_msg)]
PromptMessages(prompt) ==
    << [role |-> "system", content |-> "sys_prompt"],
       [role |-> "user",
        content |-> IF prompt.intro THEN "Introduce" ELSE prompt.text] >>

NoCall == [pc |-> "none", intro |-> FALSE, user_input |-> "", fetch |-> "none",
           context |-> Unset, prompt |-> NoPrompt, reply |-> "", invocations |-> 0]
StartCall(user_input, intro) ==
    [NoCall EXCEPT !.pc = "fetch", !.intro = intro, !.user_input = user_input]

Msg(role, content) == [role |-> role, content |-> content]

\* The turn counter of the front end in use.
TurnCount == IF mode = "cli" THEN platform.turn_count ELSE ss.turn_count

(***************************************************************************)
(* LearningPlatform.tutor_reply, step by step.                             *)
(***************************************************************************)
\* context = self.fetch_web_context(f"{self.current_skill} {user_input}")
TutorFetch(outcome, length) ==
    /\ call.pc = "fetch"
    /\ LET r == fetch_web_context(outcome, <<platform.current_skill, call.user_input>>,
                                  length)
       IN  call' = IF r.raised
                   THEN [call EXCEPT !.pc = "raised", !.fetch = outcome]
                   ELSE [call EXCEPT !.pc = "llm", !.fetch = outcome,
                                     !.context = r.value]
    /\ UNCHANGED <<mode, report, platform, ss, ui, teacherVars, analyzerVars>>

\* response = self.llm(messages) returns.
TutorLlmReturns ==
    /\ call.pc = "llm"
    /\ LET prompt == BuildPrompt(platform.current_skill, call.context, call.intro,
                                 call.user_input)
       IN  call' = [call EXCEPT !.pc = "returned", !.prompt = prompt,
                                !.reply = ReplyFor(prompt), !.invocations = @ + 1]
    /\ UNCHANGED <<mode, report, platform, ss, ui, teacherVars, analyzerVars>>

\* self.llm(messages) raises.
TutorLlmRaises ==
    /\ call.pc = "llm"
    /\ call' = [call EXCEPT !.pc = "raised", !.invocations = @ + 1,
                            !.prompt = BuildPrompt(platform.current_skill, call.context,
                                                   call.intro, call.user_input)]
    /\ UNCHANGED <<mode, report, platform, ss, ui, teacherVars, analyzerVars>>

(***************************************************************************)
(* LearningPlatform.run: the command-line loop.                            *)
(***************************************************************************)
\* run() up to the introduction: nothing to teach without gaps; otherwise the
\* gaps are listed, the learner picks a skill and the tutor talks first.
RunStart(choice) ==
    /\ mode = "cli" /\ ui.pc = "start"
    /\ IF report.skill_gaps = <<>>
       THEN /\ ui' = [ui EXCEPT !.pc = "done"]
            /\ UNCHANGED <<platform, call>>
       ELSE IF ListGapsRaises(report)
       THEN /\ ui' = [ui EXCEPT !.pc = "failed"]
            /\ UNCHANGED <<platform, call>>
       ELSE /\ platform' = [platform EXCEPT !.current_skill =
                                asks_what_to_learn(report, choice)]
            /\ call' = StartCall("", TRUE)
            /\ ui' = [ui EXCEPT !.pc = "intro_call"]
    /\ UNCHANGED <<mode, report, ss, teacherVars, analyzerVars>>

\* print("Tutor:", self.tutor_reply("", intro=True))
RunAfterIntro ==
    /\ mode = "cli" /\ ui.pc = "intro_call" /\ call.pc = "returned"
    /\ ui' = [ui EXCEPT !.pc = "loop"]
    /\ call' = NoCall
    /\ UNCHANGED <<mode, report, platform, ss, teacherVars, analyzerVars>>

\* user_input = input("You: "), not "exit": reply = self.tutor_reply(user_input)
RunInput(m) ==
    /\ mode = "cli" /\ ui.pc = "loop" /\ platform.turn_count < MaxTurns
    /\ call' = StartCall(m, FALSE)
    /\ ui' = [ui EXCEPT !.pc = "turn_call", !.text = m, !.notice = FALSE]
    /\ UNCHANGED <<mode, report, platform, ss, teacherVars, analyzerVars>>

\* The reply is printed; self.turn_count += 1, and update_info() every fifth.
RunAfterTurn ==
    /\ mode = "cli" /\ ui.pc = "turn_call" /\ call.pc = "returned"
    /\ platform' = [platform EXCEPT !.turn_count = @ + 1]
    /\ ui' = [ui EXCEPT !.pc = "loop", !.notice = ((platform.turn_count + 1) % 5 = 0)]
    /\ call' = NoCall
    /\ UNCHANGED <<mode, report, ss, teacherVars, analyzerVars>>

\* "exit" ends the loop.
RunExit ==
    /\ mode = "cli" /\ ui.pc = "loop"
    /\ ui' = [ui EXCEPT !.pc = "done"]
    /\ UNCHANGED <<mode, report, platform, ss, call, teacherVars, analyzerVars>>

\* An exception of tutor_reply leaves run().
RunRaises ==
    /\ mode = "cli" /\ ui.pc \in {"intro_call", "turn_call"} /\ call.pc = "raised"
    /\ ui' = [ui EXCEPT !.pc = "failed"]
    /\ call' = NoCall
    /\ UNCHANGED <<mode, report, platform, ss, teacherVars, analyzerVars>>

(***************************************************************************)
(* The tutor tab of app.py: one run of the script per interaction.         *)
(***************************************************************************)
\* The interactions: a widget outside the tutor tab ("rerun"), the checkbox
\* "Tutor should introduce lesson first" ("toggle"), the Skills tab's select
\* box, the two buttons of the tutor tab and the chat input.
Events == {"rerun", "toggle", "select", "reset", "chat", "clear"}

\* start_intro = st.checkbox(..., value=not tutor_started): the box the learner
\* last saw keeps its state while its default is the same; a box with another
\* default is a new widget and shows its default.  Before the first run with a
\* report no widget of the tab has been rendered.
CheckboxValue(box, default, event) ==
    IF box.rendered /\ box.default = default
    THEN (IF event = "toggle" THEN ~box.value ELSE box.value)
    ELSE default

\* An interaction starts a run of the script.  The Skills tab stores the
\* selected skill, the tutor tab builds a LearningPlatform from the session
\* state, and "Start / Reset Session" empties the session.
AppInteract(event, text) ==
    /\ mode = "app" /\ ui.pc = "wait" /\ report.skill_gaps # <<>>
    /\ event = "chat" =>
           /\ text \in UserInputs
           /\ ss.turn_count < MaxTurns
           /\ Len(ss.messages) + 2 <= MaxTranscript
    /\ event = "select" => text \in SkillNames(report)
    /\ ~ui.box.rendered => event = "rerun"
    /\ event \notin {"chat", "select"} => text = ""
    /\ LET skill == IF event = "select" THEN text
                    ELSE IF ss.current_skill \in SkillNames(report)
                         THEN ss.current_skill
                         ELSE report.skill_gaps[1].skill_name
       IN  /\ platform' = [current_skill |-> skill, turn_count |-> ss.turn_count]
           /\ ss' = IF event = "reset"
                    THEN [ss EXCEPT !.current_skill = skill, !.messages = <<>>,
                                    !.turn_count = 0, !.tutor_started = FALSE]
                    ELSE [ss EXCEPT !.current_skill = skill]
    /\ LET start_intro == CheckboxValue(ui.box, ~ss.tutor_started, event)
       IN  ui' = [pc |-> "intro_check", event |-> event, text |-> text,
                  start_intro |-> start_intro, notice |-> FALSE,
                  box |-> [rendered |-> TRUE, default |-> ~ss.tutor_started,
                           value |-> start_intro]]
    /\ UNCHANGED <<mode, report, call, teacherVars, analyzerVars>>

\* if not st.session_state.tutor_started and start_intro: tutor_reply("", intro=True)
AppIntroCheck ==
    /\ mode = "app" /\ ui.pc = "intro_check"
    /\ IF ~ss.tutor_started /\ ui.start_intro
       THEN /\ call' = StartCall("", TRUE)
            /\ ui' = [ui EXCEPT !.pc = "intro_call"]
       ELSE /\ ui' = [ui EXCEPT !.pc = "input_check"]
            /\ UNCHANGED call
    /\ UNCHANGED <<mode, report, platform, ss, teacherVars, analyzerVars>>

\* The introduction is appended to the transcript; tutor_started = True.
AppAfterIntro ==
    /\ mode = "app" /\ ui.pc = "intro_call" /\ call.pc = "returned"
    /\ ss' = [ss EXCEPT !.messages = Append(@, Msg("assistant", call.reply)),
                        !.tutor_started = TRUE]
    /\ ui' = [ui EXCEPT !.pc = "input_check"]
    /\ call' = NoCall
    /\ UNCHANGED <<mode, report, platform, teacherVars, analyzerVars>>

\* if user_msg := st.chat_input(...): the message is appended, then
\* reply = platform.tutor_reply(user_msg)
AppInputCheck ==
    /\ mode = "app" /\ ui.pc = "input_check"
    /\ IF ui.event = "chat"
       THEN /\ ss' = [ss EXCEPT !.messages = Append(@, Msg("user", ui.text))]
            /\ call' = StartCall(ui.text, FALSE)
            /\ ui' = [ui EXCEPT !.pc = "chat_call"]
       ELSE /\ ui' = [ui EXCEPT !.pc = "footer"]
            /\ UNCHANGED <<ss, call>>
    /\ UNCHANGED <<mode, report, platform, teacherVars, analyzerVars>>

\* The reply is appended; turn_count += 1; the notice every fifth turn.
AppAfterChat ==
    /\ mode = "app" /\ ui.pc = "chat_call" /\ call.pc = "returned"
    /\ ss' = [ss EXCEPT !.messages = Append(@, Msg("assistant", call.reply)),
                        !.turn_count = @ + 1]
    /\ platform' = [platform EXCEPT !.turn_count = ss.turn_count + 1]
    /\ ui' = [ui EXCEPT !.pc = "footer", !.notice = ((ss.turn_count + 1) % 5 = 0)]
    /\ call' = NoCall
    /\ UNCHANGED <<mode, report, teacherVars, analyzerVars>>

\* An exception of tutor_reply stops the run of the script.
AppRaises ==
    /\ mode = "app" /\ ui.pc \in {"intro_call", "chat_call"} /\ call.pc = "raised"
    /\ ui' = [ui EXCEPT !.pc = "wait"]
    /\ call' = NoCall
    /\ UNCHANGED <<mode, report, platform, ss, teacherVars, analyzerVars>>

\* if st.button("Clear Transcript"): messages = []; the run ends.
AppFooter ==
    /\ mode = "app" /\ ui.pc = "footer"
    /\ ss' = IF ui.event = "clear" THEN [ss EXCEPT !.messages = <<>>] ELSE ss
    /\ ui' = [ui EXCEPT !.pc = "wait"]
    /\ UNCHANGED <<mode, report, platform, call, teacherVars, analyzerVars>>

(***************************************************************************)
(* analyzer.py (Analyzer) and trash/entry.py (JobAnalyzer): values.        *)
(***************************************************************************)
\* The completion service lists at most MaxSkills required skills and at most
\* MaxGaps gaps in one answer.
MaxSkills == 2
MaxGaps == 2

\* str.strip().lower() on the texts the completion service answers with.
StripLower(s) ==
    CASE s = " SQL " -> "sql"
      [] s = "Docker" -> "docker"
      [] s = " Expert" -> "expert"
      [] s = "Senior " -> "senior"
      [] OTHER -> s

\* Python's None, and a list.
PyNone == [is_none |-> TRUE, items |-> <<>>]
PyList(items) == [is_none |-> FALSE, items |-> items]

SeqsUpTo(S, n) == UNION {[1..k -> S] : k \in 0..n}

\* The pydantic objects of a structured answer: Skill / UserSkill, SkillGap.
Skill(name, level) == [skill_name |-> name, proficiency_level |-> level]
SkillGap(name, current, required) ==
    [skill_name |-> name, current_level |-> current, required_level |-> required]

\* What the completion service may answer: any texts fit the str fields.
SkillPool == {Skill(" SQL ", " Expert"), Skill("Docker", "Senior ")}
GapPool ==
    {SkillGap(" SQL ", "none", " Expert"), SkillGap("Docker", "beginner", "beginner")}
RequirementsAnswers == SeqsUpTo(SkillPool, MaxSkills)
GapsAnswers == SeqsUpTo(GapPool, MaxGaps)
ProfileSkillsAnswers == {<<>>, <<Skill("SQL", "Expert")>>}

\* The CVs sent to /analyze, and the name the completion service reads in one.
CvTexts == {"cv of ann", "cv of bob"}
NameIn(text) == IF text = "cv of ann" THEN "ann" ELSE IF text = "cv of bob" THEN "bob" ELSE ""

\* The suffixes of the uploaded file names; Path(cv).suffix.lower().
Suffixes == {".txt", ".PDF", ".exe"}
Lower(ext) == IF ext = ".PDF" THEN ".pdf" ELSE ext
NeverUnsupported(ext) == FALSE
UnsupportedFormat(ext) == Lower(ext) \notin {".txt", ".docx", ".pdf"}

\* The exception analyze_cv raises before it reads the CV, if any: cv is a
\* path (str / Path), a file-like object with or without a name, or neither.
NoName == "no name"
analyze_cv_error(form, ext) ==
    IF form = "path"
    THEN (IF UnsupportedFormat(ext) THEN "ValueError" ELSE "none")
    ELSE IF form = "file-like"
    THEN (IF ext = NoName \/ UnsupportedFormat(ext) THEN "ValueError" ELSE "none")
    ELSE "TypeError"

\* tempfile.NamedTemporaryFile(delete=False, suffix=...): a file of the
\* temporary directory; the name is one no file has.
TempNames == {"tmpa", "tmpb"}
NoTempFile == [exists |-> FALSE, suffix |-> "", content |-> ""]
AnyName(p) == TRUE
FreshName(p) == ~tmp[p].exists

\* analyze_cv's result, the job details, and generate_report.
NoProfile == [user_name |-> "", skills |-> <<>>, profile_summary |-> ""]
CVProfile(raw_text, skills) ==
    [user_name |-> NameIn(raw_text), skills |-> skills, profile_summary |-> "summary"]
NoJobDetails ==
    [job_role |-> "", company_name |-> "", job_location |-> "",
     description_summary |-> ""]
JobDetails ==
    [job_role |-> "analyst", company_name |-> "acme", job_location |-> "remote",
     description_summary |-> "summary"]
generate_report(clock, user_profile, job_details, skill_requirements, skill_gaps) ==
    [timestamp |-> clock,
     user_name |-> user_profile.user_name,
     user_skills |-> user_profile.skills,
     user_profile_summary |-> user_profile.profile_summary,
     job_role |-> job_details.job_role,
     job_location |-> job_details.job_location,
     company_name |-> job_details.company_name,
     description_summary |-> job_details.description_summary,
     required_skills |-> skill_requirements,
     skill_gaps |-> skill_gaps]
NoReport == generate_report(0, NoProfile, NoJobDetails, <<>>, <<>>)

\* get_requirements and get_gaps: the answer's objects as dicts, names and
\* levels stripped and lower-cased; a gap dict has no "gap_severity".
get_requirements(answer) ==
    [i \in 1..Len(answer) |->
        Skill(StripLower(answer[i].skill_name), StripLower(answer[i].proficiency_level))]
get_gaps(answer) ==
    [i \in 1..Len(answer) |->
        Gap(StripLower(answer[i].skill_name), StripLower(answer[i].current_level),
            StripLower(answer[i].required_level), Missing)]

\* An /analyze request of a client.
AIdle ==
    [pc |-> "idle", kind |-> "none", ext |-> "", cv |-> "", path |-> "",
     profile |-> NoProfile, required |-> <<>>, report |-> NoReport,
     result |-> "none", failed |-> "none", llm_calls |-> 0]

\* The handler is an `async def` that awaits only cv_file.read(): from there
\* to its return it holds the event loop.
Analyzing(c) ==
    areq[c].pc \in {"analyze_cv", "clean", "details", "requirements", "gaps", "return"}
AnalyzeLoopFree == \A d \in Clients : ~Analyzing(d)

(***************************************************************************)
(* POST /analyze (main.py) and Analyzer.analyze, step by step.             *)
(***************************************************************************)
\* A request arrives with an uploaded CV file, a CV text, or neither.
AnalyzeArrive(c, kind, ext, cv) ==
    /\ analysis = "api" /\ areq[c].pc = "idle"
    /\ kind = "file" => (ext \in Suffixes /\ cv \in CvTexts)
    /\ kind = "text" => (ext = ".txt" /\ cv \in CvTexts)
    /\ kind = "none" => (ext = "" /\ cv = "")
    /\ areq' = [areq EXCEPT ![c] = [AIdle EXCEPT !.pc = "queued", !.kind = kind,
                                                !.ext = ext, !.cv = cv]]
    /\ UNCHANGED <<analysis, tmp, ja, teacherVars, tutorVars>>

\* analyze_endpoint up to its await: neither CV -> the 400 response; a file ->
\* the temporary file is created and the handler awaits cv_file.read(); a
\* text -> the temporary .txt file is written.
AnalyzeStart(c, p) ==
    /\ analysis = "api" /\ areq[c].pc = "queued" /\ AnalyzeLoopFree
    /\ p \in TempNames
    /\ IF areq[c].kind = "none"
       THEN /\ areq' = [areq EXCEPT ![c].pc = "return", ![c].result = "400"]
            /\ UNCHANGED tmp
       ELSE /\ FreshName(p)
            /\ tmp' = [tmp EXCEPT ![p] =
                          [exists |-> TRUE, suffix |-> areq[c].ext,
                           content |-> IF areq[c].kind = "text" THEN areq[c].cv ELSE ""]]
            /\ areq' = [areq EXCEPT ![c].path = p,
                                    ![c].pc = IF areq[c].kind = "text"
                                              THEN "analyze_cv" ELSE "upload"]
    /\ UNCHANGED <<analysis, ja, teacherVars, tutorVars>>

\* tmp.write(await cv_file.read()): the upload is written and the file closed.
AnalyzeUpload(c) ==
    /\ analysis = "api" /\ areq[c].pc = "upload" /\ AnalyzeLoopFree
    /\ tmp' = [tmp EXCEPT ![areq[c].path].content =
                  IF tmp[areq[c].path].exists THEN areq[c].cv ELSE @]
    /\ areq' = [areq EXCEPT ![c].pc = "analyze_cv"]
    /\ UNCHANGED <<analysis, ja, teacherVars, tutorVars>>

\* tmp.write raises OSError (a full disk) inside the `with` block: the file
\* is closed, and the exception leaves the handler before its try / finally.
AnalyzeUploadFails(c) ==
    /\ analysis = "api" /\ areq[c].pc = "upload" /\ AnalyzeLoopFree
    /\ areq' = [areq EXCEPT ![c] = AIdle]
    /\ UNCHANGED <<analysis, tmp, ja, teacherVars, tutorVars>>

\* analyze_cv: the text of the file by its suffix, ValueError on any other
\* suffix; then the completion call that extracts the profile.
AnalyzeCv(c, skills) ==
    /\ analysis = "api" /\ areq[c].pc = "analyze_cv"
    /\ LET file == tmp[areq[c].path]
       IN  areq' = [areq EXCEPT ![c] =
                IF analyze_cv_error("path", areq[c].ext) # "none"
                THEN [@ EXCEPT !.pc = "return",
                               !.result = analyze_cv_error("path", areq[c].ext)]
                ELSE IF ~file.exists
                THEN [@ EXCEPT !.pc = "return", !.result = "FileNotFoundError"]
                ELSE [@ EXCEPT !.pc = "clean", !.llm_calls = @ + 1,
                               !.profile = CVProfile(file.content, skills)]]
    /\ UNCHANGED <<analysis, tmp, ja, teacherVars, tutorVars>>

\* clean_job_description: one completion call.
AnalyzeClean(c) ==
    /\ analysis = "api" /\ areq[c].pc = "clean"
    /\ areq' = [areq EXCEPT ![c].pc = "details", ![c].llm_calls = @ + 1]
    /\ UNCHANGED <<analysis, tmp, ja, teacherVars, tutorVars>>

\* get_job_details: one completion call.
AnalyzeDetails(c) ==
    /\ analysis = "api" /\ areq[c].pc = "details"
    /\ areq' = [areq EXCEPT ![c].pc = "requirements", ![c].llm_calls = @ + 1]
    /\ UNCHANGED <<analysis, tmp, ja, teacherVars, tutorVars>>

\* get_requirements: the required skills are what the completion call answers.
AnalyzeRequirements(c, answer) ==
    /\ analysis = "api" /\ areq[c].pc = "requirements"
    /\ areq' = [areq EXCEPT ![c].pc = "gaps", ![c].llm_calls = @ + 1,
                            ![c].required = get_requirements(answer)]
    /\ UNCHANGED <<analysis, tmp, ja, teacherVars, tutorVars>>

\* get_gaps: the gaps are what the completion call answers; generate_report.
AnalyzeGaps(c, answer) ==
    /\ analysis = "api" /\ areq[c].pc = "gaps"
    /\ areq' = [areq EXCEPT ![c].pc = "return", ![c].llm_calls = @ + 1,
                            ![c].result = "ok",
                            ![c].report = generate_report(now, areq[c].profile, JobDetails,
                                                          areq[c].required, get_gaps(answer))]
    /\ UNCHANGED <<analysis, tmp, ja, teacherVars, tutorVars>>

\* structured_llm.invoke raises in one of the five completion calls: the
\* exception leaves analyze.
AnalyzeLlmRaises(c) ==
    /\ analysis = "api"
    /\ areq[c].pc \in {"analyze_cv", "clean", "details", "requirements", "gaps"}
    /\ areq[c].pc = "analyze_cv" =>
           (tmp[areq[c].path].exists /\ analyze_cv_error("path", areq[c].ext) = "none")
    /\ areq' = [areq EXCEPT ![c].pc = "return", ![c].llm_calls = @ + 1,
                            ![c].failed = areq[c].pc, ![c].result = "ServiceError"]
    /\ UNCHANGED <<analysis, tmp, ja, teacherVars, tutorVars>>

\* finally: if os.path.exists(tmp_path): os.remove(tmp_path); the response
\* (the report, the 400 or the error) goes to the client.
AnalyzeReturn(c) ==
    /\ analysis = "api" /\ areq[c].pc = "return"
    /\ tmp' = IF areq[c].path \in TempNames
              THEN [tmp EXCEPT ![areq[c].path] = NoTempFile] ELSE tmp
    /\ areq' = [areq EXCEPT ![c] = AIdle]
    /\ UNCHANGED <<analysis, ja, teacherVars, tutorVars>>

(***************************************************************************)
(* JobAnalyzer.run_analysis (trash/entry.py), run by app.py's Analyze tab. *)
(***************************************************************************)
\* max_retries = 3
MaxRetries == 3

\* The answers of the completion service to JobAnalyzer: the skills carry
\* importance and category, the gaps a gap_severity; nothing is normalised.
JobSkill(name, level, importance, category) ==
    [skill_name |-> name, proficiency_level |-> level, importance |-> importance,
     category |-> category]
JobSkillPool ==
    {JobSkill("sql", "expert", "high", "technical"),
     JobSkill("docker", "Senior ", "low", "technical")}
JobGapPool ==
    {Gap("sql", "none", "expert", "low"), Gap("go", "advanced", "beginner", "high")}
JobRequirementsAnswers == SeqsUpTo(JobSkillPool, MaxSkills)
JobGapsAnswers == SeqsUpTo(JobGapPool, MaxGaps)

\* JobAnalyzer.generate_report
job_generate_report(clock, job_role, skills, gaps) ==
    [job_role |-> job_role, analysis_timestamp |-> clock, user_role |-> "developer",
     required_skills_count |-> Len(skills.items), skill_gaps_count |-> Len(gaps.items),
     required_skills |-> skills, skill_gaps |-> gaps]
NoJobReport == job_generate_report(0, "", PyList(<<>>), PyList(<<>>))

JaIdle ==
    [pc |-> "idle", method |-> "none", attempt |-> 0, failures |-> 0,
     required |-> PyList(<<>>),
     report |-> NoJobReport, result |-> "none", failed |-> "none", llm_calls |-> 0]

\* len(x) raises TypeError on None.
LenNeverRaises(v) == FALSE
LenRaises(v) == v.is_none

\* The Analyze button: job_text that starts with "http" is fetched, any other
\* text is the description itself.
JaStart(method) ==
    /\ analysis = "app" /\ ja.pc = "idle"
    /\ ja' = [JaIdle EXCEPT !.method = method,
                            !.pc = IF method = "url" THEN "fetch" ELSE "clean"]
    /\ UNCHANGED <<analysis, areq, tmp, teacherVars, tutorVars>>

\* if attempt == max_retries - 1 (attempt counts from 0)
LastAttemptOneLate(attempt) == attempt = MaxRetries
LastAttempt(attempt) == attempt = MaxRetries - 1

\* _fetch_job_data: one self.session.get per attempt; a RequestException on
\* the last attempt ends the fetch with JobAnalysisError, on an earlier one
\* the next attempt follows; a page of less than 100 characters is refused.
JaFetch(outcome) ==
    /\ analysis = "app" /\ ja.pc = "fetch"
    /\ ja' = IF outcome = "RequestException"
             THEN IF LastAttempt(ja.attempt)
                  THEN [ja EXCEPT !.attempt = @ + 1, !.failures = @ + 1,
                                  !.pc = "respond", !.result = "JobAnalysisError"]
                  ELSE [ja EXCEPT !.attempt = @ + 1, !.failures = @ + 1]
             ELSE IF outcome = "short"
             THEN [ja EXCEPT !.attempt = @ + 1, !.pc = "respond",
                             !.result = "JobAnalysisError"]
             ELSE [ja EXCEPT !.attempt = @ + 1, !.pc = "clean"]
    /\ UNCHANGED <<analysis, areq, tmp, teacherVars, tutorVars>>

\* clean_job_description: any exception of the completion call, and an empty
\* role or description, ends the run with JobAnalysisError.
JaClean(outcome) ==
    /\ analysis = "app" /\ ja.pc = "clean"
    /\ ja' = IF outcome = "ok"
             THEN [ja EXCEPT !.pc = "requirements", !.llm_calls = @ + 1]
             ELSE [ja EXCEPT !.pc = "respond", !.llm_calls = @ + 1, !.failed = "clean",
                             !.result = "JobAnalysisError"]
    /\ UNCHANGED <<analysis, areq, tmp, teacherVars, tutorVars>>

\* analyze_requirements logs an exception of the completion call and returns
\* None; run_analysis then takes len(required_skills).
JaRequirements(outcome, answer) ==
    /\ analysis = "app" /\ ja.pc = "requirements"
    /\ LET required_skills == IF outcome = "raises" THEN PyNone ELSE PyList(answer)
       IN  ja' = IF LenRaises(required_skills)
                 THEN [ja EXCEPT !.pc = "respond", !.llm_calls = @ + 1,
                                 !.failed = "requirements", !.result = "TypeError"]
                 ELSE [ja EXCEPT !.pc = "gaps", !.llm_calls = @ + 1,
                                 !.failed = IF outcome = "raises" THEN "requirements"
                                            ELSE "none",
                                 !.required = required_skills]
    /\ UNCHANGED <<analysis, areq, tmp, teacherVars, tutorVars>>

\* identify_skill_gaps: [] without a call when nothing is required; it logs
\* an exception of the completion call and returns None; run_analysis then
\* takes len(skill_gaps) and generates the report.
JaGaps(outcome, answer) ==
    /\ analysis = "app" /\ ja.pc = "gaps"
    /\ LET nothing == ja.required.is_none \/ ja.required.items = <<>>
           skill_gaps == IF nothing THEN PyList(<<>>)
                         ELSE IF outcome = "raises" THEN PyNone ELSE PyList(answer)
           calls == IF nothing THEN ja.llm_calls ELSE ja.llm_calls + 1
           failure == IF ~nothing /\ outcome = "raises" THEN "gaps" ELSE ja.failed
       IN  ja' = IF LenRaises(skill_gaps)
                 THEN [ja EXCEPT !.pc = "respond", !.llm_calls = calls,
                                 !.failed = failure, !.result = "TypeError"]
                 ELSE [ja EXCEPT !.pc = "respond", !.llm_calls = calls,
                                 !.failed = failure, !.result = "ok",
                                 !.report = job_generate_report(now, "analyst",
                                                ja.required, skill_gaps)]
    /\ UNCHANGED <<analysis, areq, tmp, teacherVars, tutorVars>>

\* app.py: the report goes to st.session_state.report, an exception to
\* st.exception.
JaRespond ==
    /\ analysis = "app" /\ ja.pc = "respond"
    /\ ja' = JaIdle
    /\ UNCHANGED <<analysis, areq, tmp, teacherVars, tutorVars>>


\* No analysis runs.
AnalyzerAtRest ==
    /\ analysis = "none"
    /\ areq = [c \in Clients |-> AIdle]
    /\ tmp = [p \in TempNames |-> NoTempFile]
    /\ ja = JaIdle

(***************************************************************************)
(* The specifications.                                                     *)
(***************************************************************************)
\* LearningPlatform.__init__ and _init_state.
NewPlatform == [current_skill |-> None, turn_count |-> 0]
NewSessionState ==
    [messages |-> <<>>, current_skill |-> None, turn_count |-> 0,
     tutor_started |-> FALSE]
NewUi(m) ==
    [pc |-> IF m = "cli" THEN "start" ELSE "wait", event |-> "rerun", text |-> "",
     start_intro |-> FALSE, notice |-> FALSE,
     box |-> [rendered |-> FALSE, default |-> TRUE, value |-> TRUE]]

TutorAtRest ==
    /\ mode = "cli"
    /\ report = ReportNoGaps
    /\ platform = NewPlatform
    /\ ss = NewSessionState
    /\ ui = NewUi("cli")
    /\ call = NoCall

TeacherAtRest ==
    /\ now = StartClock
    /\ history_json = NoFile
    /\ server = "down"
    /\ teacher = NoTeacher
    /\ req = [c \in Clients |-> Idle]
    /\ before = [c \in Clients |-> NoSnapshot]
    /\ saved = NoSaved
    /\ crashes = 0

InitTeacher ==
    /\ now = StartClock
    /\ history_json \in InitialFiles
    /\ server = "up"
    /\ teacher = NewTeacher(StartClock, history_json)
    /\ req = [c \in Clients |-> Idle]
    /\ before = [c \in Clients |-> NoSnapshot]
    /\ saved = NoSaved
    /\ crashes = 0
    /\ TutorAtRest
    /\ AnalyzerAtRest

NextTeacher ==
    \/ \E c \in Clients : \E op \in {"init_chat", "chat"} :
           \E m \in ChatMessages \cup {DefaultInitMessage} : Arrive(c, op, m)
    \/ \E c \in Clients : InitChatCall(c)
    \/ \E c \in Clients : ChatCall(c)
    \/ \E c \in Clients : SaveHistoryCall(c)
    \/ \E c \in Clients : InvokeReturns(c)
    \/ \E c \in Clients : InvokeFails(c)
    \/ \E c \in Clients : AppendUser(c)
    \/ \E c \in Clients : AppendReply(c)
    \/ \E c \in Clients : SaveOpen(c)
    \/ \E c \in Clients : SaveDump(c)
    \/ \E c \in Clients : SaveFails(c)
    \/ \E c \in Clients : Finish(c)
    \/ Crash
    \/ Restart
    \/ Tick

SpecTeacher == InitTeacher /\ [][NextTeacher]_vars

InitTutor ==
    /\ mode \in {"cli", "app"}
    /\ report \in Reports
    /\ platform = NewPlatform
    /\ ss = NewSessionState
    /\ ui = NewUi(mode)
    /\ call = NoCall
    /\ TeacherAtRest
    /\ AnalyzerAtRest

NextTutor ==
    \/ \E outcome \in {"ok", "raises"} : \E length \in PageLengths :
           TutorFetch(outcome, length)
    \/ TutorLlmReturns
    \/ TutorLlmRaises
    \/ \E choice \in Choices : RunStart(choice)
    \/ RunAfterIntro
    \/ \E m \in UserInputs : RunInput(m)
    \/ RunAfterTurn
    \/ RunExit
    \/ RunRaises
    \/ \E event \in Events : \E text \in UserInputs \cup SkillNames(report) \cup {""} :
           AppInteract(event, text)
    \/ AppIntroCheck
    \/ AppAfterIntro
    \/ AppInputCheck
    \/ AppAfterChat
    \/ AppRaises
    \/ AppFooter

SpecTutor == InitTutor /\ [][NextTutor]_vars

(***************************************************************************)
(* The analysis specification.                                             *)
(***************************************************************************)
InitAnalyzer ==
    /\ analysis \in {"api", "app"}
    /\ areq = [c \in Clients |-> AIdle]
    /\ tmp = [p \in TempNames |-> NoTempFile]
    /\ ja = JaIdle
    /\ TeacherAtRest
    /\ TutorAtRest

NextAnalyzer ==
    \/ \E c \in Clients : \E kind \in {"file", "text", "none"} :
           \E ext \in Suffixes \cup {""} : \E cv \in CvTexts \cup {""} :
               AnalyzeArrive(c, kind, ext, cv)
    \/ \E c \in Clients : \E p \in TempNames : AnalyzeStart(c, p)
    \/ \E c \in Clients : AnalyzeUpload(c)
    \/ \E c \in Clients : AnalyzeUploadFails(c)
    \/ \E c \in Clients : \E skills \in ProfileSkillsAnswers : AnalyzeCv(c, skills)
    \/ \E c \in Clients : AnalyzeClean(c)
    \/ \E c \in Clients : AnalyzeDetails(c)
    \/ \E c \in Clients : \E answer \in RequirementsAnswers : AnalyzeRequirements(c, answer)
    \/ \E c \in Clients : \E answer \in GapsAnswers : AnalyzeGaps(c, answer)
    \/ \E c \in Clients : AnalyzeLlmRaises(c)
    \/ \E c \in Clients : AnalyzeReturn(c)
    \/ \E method \in {"url", "manual"} : JaStart(method)
    \/ \E outcome \in {"ok", "short", "RequestException"} : JaFetch(outcome)
    \/ \E outcome \in {"ok", "raises"} : JaClean(outcome)
    \/ \E outcome \in {"ok", "raises"} : \E answer \in JobRequirementsAnswers :
           JaRequirements(outcome, answer)
    \/ \E outcome \in {"ok", "raises"} : \E answer \in JobGapsAnswers :
           JaGaps(outcome, answer)
    \/ JaRespond

SpecAnalyzer == InitAnalyzer /\ [][NextAnalyzer]_vars

(***************************************************************************)
(* JobAnalyzer.run_analysis alone, running to its end: once the Analyze    *)
(* button has started it, the call goes on step after step until it        *)
(* returns or raises.                                                      *)
(***************************************************************************)
InitJobAnalyzer ==
    /\ analysis = "app"
    /\ areq = [c \in Clients |-> AIdle]
    /\ tmp = [p \in TempNames |-> NoTempFile]
    /\ ja = JaIdle
    /\ TeacherAtRest
    /\ TutorAtRest

JaStep ==
    \/ \E outcome \in {"ok", "short", "RequestException"} : JaFetch(outcome)
    \/ \E outcome \in {"ok", "raises"} : JaClean(outcome)
    \/ \E outcome \in {"ok", "raises"} : \E answer \in JobRequirementsAnswers :
           JaRequirements(outcome, answer)
    \/ \E outcome \in {"ok", "raises"} : \E answer \in JobGapsAnswers :
           JaGaps(outcome, answer)
    \/ JaRespond

NextJobAnalyzer ==
    \/ \E method \in {"url", "manual"} : JaStart(method)
    \/ JaStep

SpecJobAnalyzer == InitJobAnalyzer /\ [][NextJobAnalyzer]_vars /\ WF_vars(JaStep)


(***************************************************************************)
(* The claims.                                                             *)
(***************************************************************************)
\* A tutor_reply call hands its reply to run() / to the script.
IntroReplyTaken == call.pc = "returned" /\ call.intro /\ call'.pc = "none"
TurnReplyTaken == call.pc = "returned" /\ ~call.intro /\ call'.pc = "none"
\* "Start / Reset Session" is clicked: a new session begins.
ResetClicked == mode = "app" /\ ui.pc = "wait" /\ ui'.pc = "intro_check"
                /\ ui'.event = "reset"

\* C1: turn_count starts at 0, is 0 once the introduction reply has been
\* produced, goes up by exactly 1 with each user turn whose reply is produced,
\* and changes in no other step of a session.
C1_TurnCountContract ==
    /\ TurnCount = 0
    /\ [][ /\ IntroReplyTaken => TurnCount' = 0
           /\ TurnReplyTaken => TurnCount' = TurnCount + 1
           /\ (~TurnReplyTaken /\ ~ResetClicked) => TurnCount' = TurnCount ]_vars

\* C2: when agent.invoke fails, the call ends with the error and chat_history,
\* chat_init and history.json are what they were when the call began.
C2_FailedInvokeLeavesSession ==
    [][ \A c \in Clients :
          (req[c].pc = "invoke" /\ req'[c].result = "ServiceError") =>
              /\ req'[c].pc = "idle"
              /\ teacher'.chat_history = before[c].chat_history
              /\ teacher'.chat_init = before[c].chat_init
              /\ history_json' = before[c].file ]_vars
C2_Witness ==
    \E c \in Clients :
        /\ req[c].result = "ServiceError" /\ req[c].op = "chat"
        /\ server = "up" /\ Len(teacher.chat_history) >= 2

\* C3: a context fetch happens only in a turn where turn_count is a positive
\* multiple of 5, never for the introduction or for turns 1 to 4.
C3_FetchOnlyEveryFifthTurn ==
    [][ (call.pc = "fetch" /\ call'.pc # "fetch") =>
            (TurnCount % 5 = 0 /\ TurnCount > 0) ]_vars

\* C4: when the request of fetch_web_context fails, tutor_reply goes on to the
\* completion call with the "no context" sentinel as the prompt's context, and
\* the reply of the completion service is the reply of the turn.
C4_FetchFailureDegrades ==
    [][ /\ (call.pc = "fetch" /\ call'.fetch = "raises") =>
               (call'.pc = "llm" /\ call'.context = NoContext)
        /\ (call.pc = "llm" /\ call.fetch = "raises") =>
               (call'.pc \in {"returned", "raised"}
                /\ call'.prompt.context = NoContext)
        /\ (call.pc = "llm" /\ call.fetch = "raises" /\ call'.pc = "returned") =>
               call'.reply = ReplyFor(call'.prompt) ]_vars
C4_Witness ==
    call.pc = "returned" /\ call.fetch = "raises" /\ ~call.intro
    /\ call.prompt.context = NoContext

\* C5: history.json never holds an empty, truncated or partly written
\* document, and no start of the server fails to load it.
C5_SaveIsAtomic ==
    /\ history_json.exists => Complete(history_json)
    /\ server # "load_error"

\* C6: a save of a session that has not changed since the last finished save
\* leaves history.json as that save wrote it, entry timestamps included.
C6_SaveIsIdempotent ==
    [][ \A c \in Clients :
          (/\ req[c].pc = "save_dump" /\ req'[c].pc = "finish"
           /\ before[c].saved.valid
           /\ before[c].saved.session = MemSession(teacher)) =>
              history_json' = before[c].file ]_vars

\* The transcript lists every user message immediately followed by the reply
\* to it.
TurnsIntact(pairs) ==
    \A i \in 1..Len(pairs) :
        pairs[i][1] = "user" =>
            /\ i < Len(pairs)
            /\ pairs[i + 1] = <<"assistant", ReplyTo(pairs[i][2])>>

\* C7: at most one turn is in flight at any time (a request that arrives
\* meanwhile waits), and the transcript, persisted or in memory between turns,
\* lists every user message immediately followed by its own reply.
C7_OneTurnInFlight ==
    /\ Cardinality({c \in Clients : InFlight(c)}) <= 1
    /\ Complete(history_json) => TurnsIntact(Pairs(history_json.data.chat_history))
    /\ (\A c \in Clients : ~InFlight(c)) => TurnsIntact(MemPairs(teacher.chat_history))
C7_Witness ==
    \E c, d \in Clients :
        /\ req[c].pc = "append_reply" /\ req[c].op = "chat"
        /\ req[d].pc = "queued" /\ req[d].op = "chat"

\* C8: a turn that ends without returning (a failed completion call, a failed
\* write, a killed process) leaves history.json as it was when the turn began,
\* and the in-memory history too.
C8_InterruptedTurnLeavesNoTrace ==
    [][ \A c \in Clients :
          (InFlight(c) /\ req[c].op \in {"init_chat", "chat"}
           /\ req'[c].pc = "idle" /\ req'[c].result # "ok") =>
              /\ history_json' = before[c].file
              /\ server' = "up" => teacher'.chat_history = before[c].chat_history ]_vars

\* C9: when init_chat or chat returns, history.json holds a whole document
\* whose (role, message) pairs are those of chat_history, in order.
C9_PersistedAfterEveryTurn ==
    [][ \A c \in Clients :
          (req[c].pc = "finish" /\ req[c].op \in {"init_chat", "chat"}
           /\ req'[c].result = "ok") =>
              /\ Complete(history_json')
              /\ Pairs(history_json'.data.chat_history)
                     = MemPairs(teacher'.chat_history) ]_vars
C9_Witness ==
    \E c \in Clients :
        /\ req[c].pc = "idle" /\ req[c].result = "ok" /\ req[c].op = "chat"
        /\ Len(teacher.chat_history) >= 4

\* C10: a Teacher started on the file a save_history wrote holds the saved
\* user_name, job_role, job_proficiency, teaching_skill, teaching_proficiency
\* and chat_history (same entries, same classes, same order).
SameSession(t, session) ==
    /\ t.user_name = session.user_name
    /\ t.job_role = session.job_role
    /\ t.job_proficiency = session.job_proficiency
    /\ t.teaching_skill = session.teaching_skill
    /\ t.teaching_proficiency = session.teaching_proficiency
    /\ t.chat_history = session.chat_history
C10_RestartKeepsSession ==
    [][ (server = "down" /\ server' = "up" /\ saved.valid) =>
            (teacher'.loaded /\ SameSession(teacher', saved.session)) ]_vars
C10_Witness ==
    /\ server = "up" /\ crashes >= 1 /\ saved.valid /\ teacher.loaded
    /\ Len(teacher.chat_history) >= 5
    /\ teacher.chat_history[1].type = "SystemMessage"

\* C11: "Start / Reset Session" (or a session on another focus skill) leaves
\* the transcript of the session before it where the tab keeps transcripts:
\* st.session_state.messages is the only store of the tutor tab.
C11_ResetKeepsEarlierSession ==
    [][ (mode = "app" /\ ui.pc = "wait" /\ ui'.pc = "intro_check"
         /\ ui'.event \in {"reset", "select"} /\ ss.messages # <<>>) =>
            ss'.messages = ss.messages ]_vars

\* The reports about to be returned: of Analyzer.analyze by /analyze, and of
\* JobAnalyzer.run_analysis to app.py.
AnalyzeReturnsReport(c) == areq[c].pc = "return" /\ areq[c].result = "ok"
RunAnalysisReturnsReport == ja.pc = "respond" /\ ja.result = "ok"
Names(list) == [i \in 1..Len(list) |-> list[i].skill_name]
RECURSIVE IsSubsequence(_, _)
IsSubsequence(a, b) ==
    IF a = <<>> THEN TRUE
    ELSE IF b = <<>> THEN FALSE
    ELSE IF Head(a) = Head(b) THEN IsSubsequence(Tail(a), Tail(b))
    ELSE IsSubsequence(a, Tail(b))
\* The proficiency scale none < beginner < intermediate < advanced < expert.
Recognised(level) ==
    level \in {"none", "beginner", "intermediate", "advanced", "expert"}
Ordinal(level) ==
    CASE level = "none" -> 0
      [] level = "beginner" -> 1
      [] level = "intermediate" -> 2
      [] level = "advanced" -> 3
      [] level = "expert" -> 4
      [] OTHER -> 0 - 1

\* C12: in every report the skill names of skill_gaps are a subsequence of
\* the names of required_skills: only required skills, in their order.
C12_GapsFollowRequiredSkills ==
    /\ \A c \in Clients : AnalyzeReturnsReport(c) =>
           IsSubsequence(Names(areq[c].report.skill_gaps),
                         Names(areq[c].report.required_skills))
    /\ RunAnalysisReturnsReport =>
           IsSubsequence(Names(ja.report.skill_gaps.items),
                         Names(ja.report.required_skills.items))

\* C13: no entry of skill_gaps has a current level at or above its required
\* level.
NoGapAtOrAbove(gaps) ==
    \A i \in 1..Len(gaps) :
        (Recognised(gaps[i].current_level) /\ Recognised(gaps[i].required_level)) =>
            Ordinal(gaps[i].current_level) < Ordinal(gaps[i].required_level)
C13_NoGapAtOrAboveRequired ==
    /\ \A c \in Clients : AnalyzeReturnsReport(c) =>
           NoGapAtOrAbove(areq[c].report.skill_gaps)
    /\ RunAnalysisReturnsReport => NoGapAtOrAbove(ja.report.skill_gaps.items)

\* C14: the severity of every gap is the function of the distance between
\* its required and its current level: 1 low, 2 medium, 3 high, 4 critical.
SeverityFor(distance) ==
    CASE distance = 1 -> "low"
      [] distance = 2 -> "medium"
      [] distance = 3 -> "high"
      [] distance = 4 -> "critical"
      [] OTHER -> "no gap"
SeverityByDistance(gaps) ==
    \A i \in 1..Len(gaps) :
        (/\ Recognised(gaps[i].current_level) /\ Recognised(gaps[i].required_level)
         /\ Ordinal(gaps[i].current_level) < Ordinal(gaps[i].required_level)) =>
            gaps[i].gap_severity =
                SeverityFor(Ordinal(gaps[i].required_level) - Ordinal(gaps[i].current_level))
C14_SeverityIsDistance ==
    /\ \A c \in Clients : AnalyzeReturnsReport(c) =>
           SeverityByDistance(areq[c].report.skill_gaps)
    /\ RunAnalysisReturnsReport => SeverityByDistance(ja.report.skill_gaps.items)

\* C15: every report of Analyzer.analyze carries gap_severity in each entry
\* of skill_gaps, so that asks_what_to_learn can list its gaps.
C15_ReportGapsCarrySeverity ==
    \A c \in Clients : AnalyzeReturnsReport(c) => ~ListGapsRaises(areq[c].report)

\* C16: a CV whose suffix is none of .txt, .docx, .pdf (in any case), for a
\* path and for a file-like object's name, makes analyze_cv raise ValueError,
\* and analyze ends with it at analyze_cv, before any completion call.
C16_UnsupportedFormatRejected ==
    /\ \A form \in {"path", "file-like"} : \A ext \in Suffixes \cup {".docx", ""} :
           Lower(ext) \notin {".txt", ".docx", ".pdf"} =>
               analyze_cv_error(form, ext) = "ValueError"
    /\ \A c \in Clients :
           (/\ areq[c].kind # "none"
            /\ Lower(areq[c].ext) \notin {".txt", ".docx", ".pdf"}
            /\ areq[c].pc \notin {"idle", "queued", "upload"}) =>
               /\ areq[c].llm_calls = 0
               /\ areq[c].pc \in {"analyze_cv", "return"}
               /\ areq[c].pc = "return" =>
                      (areq[c].result = "ValueError" /\ areq[c].report = NoReport)
C16_Witness ==
    \E c \in Clients :
        /\ areq[c].pc = "return" /\ areq[c].result = "ValueError"
        /\ areq[c].kind = "file" /\ areq[c].ext = ".exe" /\ areq[c].llm_calls = 0

\* C17: when a completion call of the analysis fails, analyze and
\* run_analysis end with an exception and no report; a report that is
\* returned holds lists, never None, as required_skills and skill_gaps.
C17_AnalysisFailsLoudly ==
    /\ \A c \in Clients :
           (areq[c].pc = "return" /\ areq[c].failed # "none") =>
               (areq[c].result # "ok" /\ areq[c].report = NoReport)
    /\ (ja.pc = "respond" /\ ja.failed # "none") =>
           (ja.result # "ok" /\ ja.report = NoJobReport)
    /\ RunAnalysisReturnsReport =>
           (~ja.report.required_skills.is_none /\ ~ja.report.skill_gaps.is_none)
C17_Witness ==
    ja.pc = "respond" /\ ja.failed = "gaps" /\ ja.result = "TypeError"
    /\ ja.required.items # <<>>

\* C18: every proficiency level of a report (user_skills, required_skills,
\* skill_gaps) is, trimmed and lower-cased, one of the five levels.
LevelsRecognised(user_skills, required_skills, skill_gaps) ==
    /\ \A i \in 1..Len(user_skills) :
           Recognised(StripLower(user_skills[i].proficiency_level))
    /\ \A i \in 1..Len(required_skills) :
           Recognised(StripLower(required_skills[i].proficiency_level))
    /\ \A i \in 1..Len(skill_gaps) :
           /\ Recognised(StripLower(skill_gaps[i].current_level))
           /\ Recognised(StripLower(skill_gaps[i].required_level))
C18_OnlyRecognisedLevels ==
    /\ \A c \in Clients : AnalyzeReturnsReport(c) =>
           LevelsRecognised(areq[c].report.user_skills, areq[c].report.required_skills,
                            areq[c].report.skill_gaps)
    /\ RunAnalysisReturnsReport =>
           LevelsRecognised(<<>>, ja.report.required_skills.items,
                            ja.report.skill_gaps.items)

\* C19: two /analyze requests never share a temporary file: a request
\* analyses the CV it was sent, its report names that CV's owner, no request
\* finds its file gone, and no two requests hold the same file.
HasTempFile(c) == areq[c].path \in TempNames
C19_AnalyzeRequestsIndependent ==
    /\ \A c \in Clients : areq[c].result # "FileNotFoundError"
    /\ \A c \in Clients : areq[c].pc = "analyze_cv" =>
           (tmp[areq[c].path].exists /\ tmp[areq[c].path].content = areq[c].cv)
    /\ \A c \in Clients : AnalyzeReturnsReport(c) =>
           areq[c].report.user_name = NameIn(areq[c].cv)
    /\ \A c, d \in Clients :
           (c # d /\ HasTempFile(c) /\ HasTempFile(d)) => areq[c].path # areq[d].path
C19_Witness ==
    \E c, d \in Clients :
        /\ areq[c].pc = "upload" /\ areq[d].pc = "return" /\ areq[d].result = "ok"
        /\ areq[d].kind = "file" /\ areq[c].cv # areq[d].cv
        /\ tmp[areq[c].path].exists /\ tmp[areq[d].path].exists

\* C20: a successful init_chat or chat leaves chat_history as it was when the
\* call began, followed by the user message and then the reply.
C20_TwoAppendsPerTurn ==
    [][ \A c \in Clients :
          (req[c].pc = "finish" /\ req[c].op \in {"init_chat", "chat"}
           /\ req'[c].result = "ok") =>
              teacher'.chat_history =
                  before[c].chat_history
                      \o << HumanMessage(req[c].message), AIMessage(req[c].reply) >> ]_vars
C20_Witness ==
    \E c \in Clients :
        /\ req[c].pc = "idle" /\ req[c].result = "ok" /\ req[c].op = "init_chat"
        /\ Len(teacher.chat_history) >= 4 /\ teacher.chat_init

\* C21: chat on a Teacher whose chat_init is false ends with RuntimeError at
\* once: no completion call is started and chat_history and history.json stay
\* as they are.  chat_init becomes true only when an init_chat returns, and a
\* Teacher whose chat_init is true keeps it for as long as its process lives.
C21_ChatNeedsIntroduction ==
    [][ /\ \A c \in Clients :
              (/\ req[c].pc = "queued" /\ req[c].op = "chat" /\ ~teacher.chat_init
               /\ req'[c] # req[c] /\ server' = "up") =>
                  /\ req'[c].pc = "idle" /\ req'[c].result = "RuntimeError"
                  /\ teacher' = teacher
                  /\ history_json' = history_json
        /\ (~teacher.chat_init /\ teacher'.chat_init) =>
              \E c \in Clients : /\ req[c].op = "init_chat" /\ req[c].pc = "finish"
                                 /\ req'[c].result = "ok"
        /\ (teacher.chat_init /\ server' = "up") => teacher'.chat_init ]_vars
C21_Witness ==
    \E c, d \in Clients :
        /\ req[c].pc = "idle" /\ req[c].op = "chat" /\ req[c].result = "RuntimeError"
        /\ teacher.loaded /\ ~teacher.chat_init /\ server = "up"
        /\ req[d].op = "init_chat" /\ req[d].result = "ServiceError"

\* C22: in a tutor_reply call the completion service is invoked only after
\* fetch_web_context has returned, with the page text for this turn's query or
\* with the sentinel; it is invoked exactly once, and the prompt it is given
\* embeds the context that fetch returned.
C22_FetchThenPromptThenInvoke ==
    /\ call.pc = "fetch" => (call.fetch = "none" /\ call.invocations = 0)
    /\ call.pc = "llm" =>
           /\ call.fetch # "none" /\ call.invocations = 0
           /\ \/ call.context = NoContext
              \/ /\ call.context.kind = "web"
                 /\ call.context.query = <<platform.current_skill, call.user_input>>
    /\ call.pc \in {"returned", "raised"} =>
           /\ call.invocations = 1
           /\ call.context.kind \in {"web", "none"}
           /\ call.prompt.context = call.context
C22_Witness ==
    /\ mode = "app" /\ call.pc = "returned" /\ ~call.intro /\ call.invocations = 1
    /\ call.fetch = "ok" /\ call.context.kind = "web"
    /\ call.prompt.context = call.context /\ ss.turn_count >= 1

\* C23: the messages tutor_reply gives the completion service in a user turn
\* are, after the system prompt, the transcript of the session so far (every
\* earlier user and tutor entry, in order) and then the new utterance.
C23_PromptCarriesHistory ==
    (mode = "app" /\ ui.pc = "chat_call" /\ call.pc = "returned") =>
        Tail(PromptMessages(call.prompt)) = ss.messages

\* C24: the system message of every Teacher turn is filled with the
\* teaching_skill and the teaching_proficiency of the turn's config.
C24_PersonaNamesSkillAndLevel ==
    \A c \in Clients :
        req[c].pc = "invoke" =>
            /\ req[c].system.teaching_skill = Configurable(teacher).teaching_skill
            /\ req[c].system.teaching_proficiency =
                   Configurable(teacher).teaching_proficiency

\* C25: _fetch_job_data makes at most 3 GET attempts; a successful attempt is
\* the last one; after 3 failed attempts the run ends with JobAnalysisError,
\* no text having been returned to the steps after the fetch; and the fetch
\* always comes to an end.
C25_FetchRetriesBounded ==
    /\ [](/\ ja.attempt <= 3 /\ ja.failures <= ja.attempt
          /\ ja.attempt > ja.failures =>
                 (ja.attempt = ja.failures + 1 /\ ja.pc # "fetch")
          /\ ja.failures = 3 =>
                 (/\ ja.pc = "respond" /\ ja.result = "JobAnalysisError"
                  /\ ja.llm_calls = 0 /\ ja.report = NoJobReport))
    /\ [][ ja.pc \notin {"fetch", "idle"} =>
               (ja'.attempt = ja.attempt \/ ja'.pc = "idle") ]_vars
    /\ (ja.pc = "fetch") ~> (ja.pc # "fetch")
C25_Witness ==
    /\ ja.pc = "respond" /\ ja.method = "url" /\ ja.attempt = 3 /\ ja.failures = 3
    /\ ja.result = "JobAnalysisError"

\* C26: when tutor_reply raises while answering a submitted message, the run
\* of the script ends with a transcript in which no user entry is left
\* without the tutor's reply after it.
RepliedTo(messages) ==
    \A i \in 1..Len(messages) :
        messages[i].role = "user" =>
            (i < Len(messages) /\ messages[i + 1].role = "assistant")
C26_FailedReplyLeavesTranscript ==
    [][ (/\ mode = "app" /\ ui.pc = "chat_call" /\ call.pc = "raised"
         /\ ui'.pc = "wait") => RepliedTo(ss'.messages) ]_vars

\* C27: once init_chat has introduced the session (chat_init is true), a
\* further init_chat call obtains no introduction from the completion service
\* and appends nothing to chat_history.
C27_OneIntroductionPerSession ==
    [][ \A c \in Clients :
          (/\ req[c].op = "init_chat" /\ req[c].pc # "idle"
           /\ teacher.chat_init /\ server' = "up") =>
              /\ req'[c].pc \notin {"invoke", "append_user"}
              /\ teacher'.chat_history = teacher.chat_history ]_vars

\* C28: every save of a Teacher that loaded history.json writes, as the
\* session's "timestamp", the value the file held when it was loaded.
C28_SessionTimestampKept ==
    [][ \A c \in Clients :
          (req[c].pc = "save_open" /\ req'[c].pc = "save_dump" /\ teacher.loaded) =>
              history_json'.data.timestamp = teacher.history_timestamp ]_vars

\* C29: when an /analyze request finishes, the temporary file it created is
\* gone; a request with neither cv_file nor cv_text creates no file and makes
\* no completion call.
C29_TempFileRemoved ==
    [][ \A c \in Clients :
          /\ (areq[c].pc \notin {"idle", "queued"} /\ areq'[c].pc = "idle"
              /\ HasTempFile(c)) => ~tmp'[areq[c].path].exists
          /\ (areq[c].kind = "none" /\ areq[c].pc = "queued"
              /\ areq'[c].pc # "queued") =>
                 /\ tmp' = tmp /\ areq'[c].result = "400"
                 /\ areq'[c].pc = "return" /\ areq'[c].llm_calls = 0 ]_vars

\* C30: between the runs of the script, turn_count is the number of user
\* entries of the transcript st.session_state.messages (stated for the
\* transcripts whose user entries all have their reply, those that chat
\* submissions, resets, clears and introductions alone produce).
UserEntries(messages) ==
    Cardinality({i \in 1..Len(messages) : messages[i].role = "user"})
C30_TurnCountCountsUserEntries ==
    (mode = "app" /\ ui.pc = "wait" /\ RepliedTo(ss.messages)) =>
        ss.turn_count = UserEntries(ss.messages)

====
